---- MODULE Spec2Model ----
(***************************************************************************)
(* Model of the phone extraction and list matching code of Willmade        *)
(* DataHub: processor.py (extract_phone, process_excel, process_best_list, *)
(* match_lists) and the extraction helpers of streamlit_app.py.            *)
(*                                                                         *)
(* A Python str is a sequence of one-character strings.  A Hangul syllable *)
(* is one character, written here as a romanised token in angle brackets   *)
(* ("<gong>" is U+ACF5), since the module text is ASCII.  Python None and  *)
(* pandas NaN are the values None and NaN below, which are no str.         *)
(***************************************************************************)
EXTENDS Integers, Sequences, FiniteSets, TLC

VARIABLES pc, text, phone, phones, rephone,
          excel_file, best_file, excel_df, best_df, match_df, rematch_df,
          backend, store_cafe, store_best, store_match, excel_cache,
          session_excel_df, session_best_df

\* the stores and the session state of streamlit_app.py
appVars == <<backend, store_cafe, store_best, store_match, excel_cache,
             session_excel_df, session_best_df>>

vars == <<pc, text, phone, phones, rephone,
          excel_file, best_file, excel_df, best_df, match_df, rematch_df,
          appVars>>

\* ------------------------------------------------------------------------
\* Bounds of the checked inputs
\* ------------------------------------------------------------------------
MaxDigits == 12
MaxRows == 2
MaxFileRows == 2

\* ------------------------------------------------------------------------
\* Values and character classes
\* ------------------------------------------------------------------------
None == <<"None">>
NaN == <<"NaN">>

\* pandas isna
IsNull(x) == x \in {None, NaN}

\* a Python int is its decimal numeral behind the tag "<int>"
IsInt(x) == x # <<>> /\ x[1] = "<int>"

\* isinstance(x, str)
IsStr(x) == ~IsNull(x) /\ ~IsInt(x)

\* str(x), and Series.astype(str) on one value
StrOf(x) ==
    IF x = None THEN <<"N", "o", "n", "e">>
    ELSE IF x = NaN THEN <<"n", "a", "n">>
    ELSE IF IsInt(x) THEN Tail(x)
    ELSE x

Digit == {"0", "1", "2", "3", "4", "5", "6", "7", "8", "9"}

\* \s of the re module, as far as the inputs use it
Whitespace == {" "}

\* the class of phone_pattern with the dash left out
SepClass_NoDash == {".", ")"} \cup Whitespace

\* the class [-\s\.\)] of phone_pattern
SepClass == {"-", ".", ")"} \cup Whitespace

\* re.sub(r'\D', '', s)
IsDigit(c) == c \in Digit
StripNonDigits(s) == SelectSeq(s, IsDigit)

\* str.strip()
RECURSIVE LStrip(_)
LStrip(s) == IF s # <<>> /\ Head(s) \in Whitespace THEN LStrip(Tail(s)) ELSE s

RECURSIVE RStrip(_)
RStrip(s) ==
    IF s # <<>> /\ s[Len(s)] \in Whitespace
    THEN RStrip(SubSeq(s, 1, Len(s) - 1))
    ELSE s

Strip(s) == RStrip(LStrip(s))

\* ------------------------------------------------------------------------
\* processor.py: CHAR_MAP, phone_pattern, _normalize_digits, extract_phone
\* ------------------------------------------------------------------------
CHAR_MAP ==
    (<<"<gong>">> :> "0") @@ (<<"<yeong>">> :> "0") @@
    (<<"<il>">> :> "1") @@ (<<"<i>">> :> "2") @@ (<<"<sam>">> :> "3") @@
    (<<"<sa>">> :> "4") @@ (<<"<o>">> :> "5") @@ (<<"<yuk>">> :> "6") @@
    (<<"<ryuk>">> :> "6") @@ (<<"<chil>">> :> "7") @@ (<<"<pal>">> :> "8") @@
    (<<"<gu>">> :> "9") @@
    (<<"o">> :> "0") @@ (<<"O">> :> "0") @@
    (<<"l">> :> "1") @@ (<<"I">> :> "1") @@ (<<"i">> :> "1") @@
    (<<"Z">> :> "2") @@
    (<<"S">> :> "5") @@ (<<"s">> :> "5") @@
    (<<"B">> :> "8")

\* dict.get(ch, "0"): a wrong default
Get_DefaultZero(map, ch) == IF <<ch>> \in DOMAIN map THEN map[<<ch>>] ELSE "0"

\* dict.get(ch, ch) for a one-character string ch
Get(map, ch) == IF <<ch>> \in DOMAIN map THEN map[<<ch>>] ELSE ch

MapChars(map, s) == [i \in 1..Len(s) |-> Get(map, s[i])]

\* _normalize_digits with the table lookup left out
_normalize_digits_Unmapped(t) == IF t = None THEN <<>> ELSE StrOf(t)

_normalize_digits(t) ==
    LET s == IF t = None THEN <<>> ELSE StrOf(t)
    IN  MapChars(CHAR_MAP, s)

\* s[i..i+n-1] are n digits
DigitsAt(s, i, n) ==
    /\ i + n - 1 <= Len(s)
    /\ \A k \in i..(i + n - 1) : s[k] \in Digit

\* first index at or after i that holds no character of [-\s\.\)]
RECURSIVE SkipSeps(_, _)
SkipSeps(s, i) ==
    IF i <= Len(s) /\ s[i] \in SepClass THEN SkipSeps(s, i + 1) ELSE i

\* 0\d{n1}[-\s\.\)]*\d{n2}[-\s\.\)]*\d{4} at i: index of the last character
\* matched, 0 when it does not match
TryGroups(s, i, n1, n2) ==
    IF ~(i <= Len(s) /\ s[i] = "0" /\ DigitsAt(s, i + 1, n1))
    THEN 0
    ELSE LET j1 == SkipSeps(s, i + 1 + n1)
         IN  IF ~DigitsAt(s, j1, n2)
             THEN 0
             ELSE LET j2 == SkipSeps(s, j1 + n2)
                  IN  IF DigitsAt(s, j2, 4) THEN j2 + 3 ELSE 0

\* phone_pattern.match at i: the quantifiers are greedy, so the regex engine
\* tries \d{1,2} as 2 then 1 and, inside each, \d{3,4} as 4 then 3
MatchEnd(s, i) ==
    IF TryGroups(s, i, 2, 4) # 0 THEN TryGroups(s, i, 2, 4)
    ELSE IF TryGroups(s, i, 2, 3) # 0 THEN TryGroups(s, i, 2, 3)
    ELSE IF TryGroups(s, i, 1, 4) # 0 THEN TryGroups(s, i, 1, 4)
    ELSE TryGroups(s, i, 1, 3)

\* phone_pattern.search(s): <<start, end>> of the leftmost match, None without
phone_pattern_search(s) ==
    LET starts == {i \in 1..Len(s) : MatchEnd(s, i) # 0}
    IN  IF starts = {}
        THEN None
        ELSE LET i == CHOOSE k \in starts : \A l \in starts : k <= l
             IN  <<i, MatchEnd(s, i)>>

Dash == <<"-">>

\* extract_phone's formatting with the length tested before the 02 prefix
FormatPhone_LengthFirst(digits) ==
    IF Len(digits) = 10
    THEN SubSeq(digits, 1, 3) \o Dash \o SubSeq(digits, 4, 6) \o Dash
             \o SubSeq(digits, 7, Len(digits))
    ELSE IF Len(digits) = 11
    THEN SubSeq(digits, 1, 3) \o Dash \o SubSeq(digits, 4, 7) \o Dash
             \o SubSeq(digits, 8, Len(digits))
    ELSE digits

FormatPhone(digits) ==
    IF SubSeq(digits, 1, 2) = <<"0", "2">> /\ Len(digits) = 10
    THEN SubSeq(digits, 1, 2) \o Dash \o SubSeq(digits, 3, 6) \o Dash
             \o SubSeq(digits, 7, Len(digits))
    ELSE IF Len(digits) = 10
    THEN SubSeq(digits, 1, 3) \o Dash \o SubSeq(digits, 4, 6) \o Dash
             \o SubSeq(digits, 7, Len(digits))
    ELSE IF Len(digits) = 11
    THEN SubSeq(digits, 1, 3) \o Dash \o SubSeq(digits, 4, 7) \o Dash
             \o SubSeq(digits, 8, Len(digits))
    ELSE digits

extract_phone(t) ==
    LET norm == _normalize_digits(t)
        m == phone_pattern_search(norm)
    IN  IF Strip(norm) = <<>> THEN None
        ELSE IF m = None THEN None
        ELSE LET digits == StripNonDigits(SubSeq(norm, m[1], m[2]))
             IN  IF Len(digits) < 9 THEN None ELSE FormatPhone(digits)

\* ------------------------------------------------------------------------
\* Inputs of extract_phone
\* ------------------------------------------------------------------------
DigitChars == <<"0", "1", "2", "3", "4", "5", "6", "7", "8", "9">>

\* a run of n digits 0 d2 d3 4 5 6 7 8 9 0 1 2 ...
DigitRun(n, d2, d3) ==
    [k \in 1..n |-> IF k = 1 THEN "0"
                    ELSE IF k = 2 THEN d2
                    ELSE IF k = 3 THEN d3
                    ELSE DigitChars[(k % 10) + 1]]

SepChoices ==
    {<<>>, <<"-">>, <<" ">>, <<".">>, <<")">>, <<"-", " ">>, <<"/">>, <<"(">>}

Prefixes == {<<>>, <<"x">>, <<"7">>}

\* a digit run cut in three groups, with a prefix and two separators
Grouped(pre, run, a, b, s1, s2) ==
    pre \o SubSeq(run, 1, a) \o s1 \o SubSeq(run, a + 1, b) \o s2
        \o SubSeq(run, b + 1, Len(run))

FormatTexts ==
    {Grouped(pre, DigitRun(n, d2, d3), a, a + w, s1, s2) :
        pre \in Prefixes, n \in 8..MaxDigits, d2 \in {"1", "2"},
        d3 \in {"0", "3"}, a \in 2..3, w \in 3..4,
        s1 \in SepChoices, s2 \in SepChoices}

\* the Latin letters written for a digit
LatinConfusables(d) ==
    CASE d = "0" -> {"O", "o"}
      [] d = "1" -> {"I", "l", "i"}
      [] d = "2" -> {"Z"}
      [] d = "5" -> {"S", "s"}
      [] d = "8" -> {"B"}
      [] OTHER -> {}

ConfusedNumbers ==
    {<<"0", "1", "0", "-", "1", "2", "3", "4", "-", "5", "6", "2", "8">>,
     <<"0", "1", "0", "-", "5", "8", "2", "0", "-", "1", "9", "7", "3">>}

\* t is number with some of its digits written as confusable letters
IsConfusedFrom(t, number) ==
    /\ Len(t) = Len(number)
    /\ \A i \in 1..Len(t) :
          t[i] = number[i] \/ t[i] \in LatinConfusables(number[i])

RECURSIVE ConfusedPrefixes(_, _)
ConfusedPrefixes(number, k) ==
    IF k = 0
    THEN {<<>>}
    ELSE {Append(p, c) : p \in ConfusedPrefixes(number, k - 1),
                         c \in {number[k]} \cup LatinConfusables(number[k])}

ConfusedTexts ==
    UNION {ConfusedPrefixes(number, Len(number)) : number \in ConfusedNumbers}

EdgeTexts == {None, <<>>, <<" ">>, <<" ", " ">>}

CanonicalTexts ==
    {<<"0", "1", "0", "-", "1", "2", "3", "4", "-", "5", "6", "7", "8">>}

\* values that are no str: a float nan and two ints
ScalarArgs ==
    {NaN, <<"<int>", "5">>,
     <<"<int>", "1", "0", "1", "2", "3", "4", "5", "6", "7", "8">>}

\* texts without a digit and without a character of CHAR_MAP
NoDigitTexts ==
    {<<"x">>, <<"a", "b", "c">>, <<"n", "a", "n">>, <<"-", ".", ")">>,
     <<"q", "T", "q", "-", "a", "a", "a", "a", "-", "b", "b", "b", "b">>}

ExtractTexts ==
    FormatTexts \cup ConfusedTexts \cup EdgeTexts \cup CanonicalTexts
        \cup ScalarArgs \cup NoDigitTexts

\* ------------------------------------------------------------------------
\* extract_phone called on one text
\* ------------------------------------------------------------------------
\* streamlit_app.py before its first run: no store file, an empty session
\* a store file that does not exist, a session value that is None
Missing == {}

NoStores ==
    /\ store_cafe = {}
    /\ store_best = {}
    /\ store_match = Missing
    /\ excel_cache = Missing
    /\ session_excel_df = Missing
    /\ session_best_df = Missing

NoApp ==
    /\ backend = "local"
    /\ NoStores

NoFrames ==
    /\ rephone = None
    /\ excel_file = <<>>
    /\ best_file = [ncols |-> 1, rows |-> <<>>]
    /\ excel_df = <<>>
    /\ best_df = <<>>
    /\ match_df = <<>>
    /\ rematch_df = <<>>

NoFiles == NoFrames /\ NoApp

InitExtract ==
    /\ pc = "extract"
    /\ text \in ExtractTexts
    /\ phone = None
    /\ phones = {}
    /\ NoFiles

ExtractPhone ==
    /\ pc = "extract"
    /\ phone' = extract_phone(text)
    /\ pc' = "done"
    /\ UNCHANGED <<text, phones, excel_file, best_file, excel_df, best_df,
                   match_df, rematch_df>>
    /\ UNCHANGED <<rephone, appVars>>

\* extract_phone called on the string it returned
Reextract ==
    /\ pc = "done"
    /\ phone # None
    /\ rephone' = extract_phone(phone)
    /\ pc' = "redone"
    /\ UNCHANGED <<text, phone, phones, excel_file, best_file, excel_df,
                   best_df, match_df, rematch_df, appVars>>

NextExtract == ExtractPhone \/ Reextract

SpecExtract == InitExtract /\ [][NextExtract]_vars

\* ------------------------------------------------------------------------
\* processor.py: data frames as sequences of rows, match_lists
\* ------------------------------------------------------------------------
BoundedSeq(S, n) == UNION {[1..k -> S] : k \in 0..n}

\* drop_duplicates(..., keep=False): every row of a repeated (user_id, phone)
\* goes
DropDuplicates_KeepFalse(rows) ==
    LET Once(r) == Cardinality({i \in 1..Len(rows) :
                                   /\ rows[i].user_id = r.user_id
                                   /\ rows[i].phone = r.phone}) = 1
    IN  SelectSeq(rows, Once)

\* drop_duplicates(subset=["user_id"]): the first row of each user_id stays
RECURSIVE DropDuplicates_ByUserId(_)
DropDuplicates_ByUserId(rows) ==
    IF rows = <<>>
    THEN <<>>
    ELSE LET last == rows[Len(rows)]
             front == SubSeq(rows, 1, Len(rows) - 1)
         IN  IF \E i \in 1..Len(front) : front[i].user_id = last.user_id
             THEN DropDuplicates_ByUserId(front)
             ELSE Append(DropDuplicates_ByUserId(front), last)

\* DataFrame.drop_duplicates(subset=["user_id", "phone"]): the first row of
\* each (user_id, phone) stays
RECURSIVE DropDuplicates(_)
DropDuplicates(rows) ==
    IF rows = <<>>
    THEN <<>>
    ELSE LET last == rows[Len(rows)]
             front == SubSeq(rows, 1, Len(rows) - 1)
             seen == \E i \in 1..Len(front) :
                        /\ front[i].user_id = last.user_id
                        /\ front[i].phone = last.phone
         IN  IF seen
             THEN DropDuplicates(front)
             ELSE Append(DropDuplicates(front), last)

\* the rows of one row of best_df under how="inner"
JoinedRows_Inner(b, excel) ==
    LET SameId(e) == e.user_id = b.user_id
        found == SelectSeq(excel, SameId)
    IN  [i \in 1..Len(found) |->
            [user_id |-> b.user_id, phone_best |-> b.phone,
             phone_excel |-> found[i].phone]]

\* the rows pd.merge(..., how="left") makes of one row of best_df
JoinedRows(b, excel) ==
    LET SameId(e) == e.user_id = b.user_id
        found == SelectSeq(excel, SameId)
    IN  IF found = <<>>
        THEN <<[user_id |-> b.user_id, phone_best |-> b.phone,
                phone_excel |-> NaN]>>
        ELSE [i \in 1..Len(found) |->
                [user_id |-> b.user_id, phone_best |-> b.phone,
                 phone_excel |-> found[i].phone]]

\* pd.merge(best_df, excel_df, on="user_id", how="left")
RECURSIVE Merge(_, _)
Merge(best, excel) ==
    IF best = <<>>
    THEN <<>>
    ELSE JoinedRows(Head(best), excel) \o Merge(Tail(best), excel)

\* combine_first with its two series exchanged
CombineFirst_BestFirst(a, b) == IF ~IsNull(b) THEN b ELSE a

\* Series.combine_first: the value of a where it is not null, else that of b
CombineFirst(a, b) == IF ~IsNull(a) THEN a ELSE b

match_lists(excel, best) ==
    LET merged == Merge(best, excel)
        matched == [i \in 1..Len(merged) |->
                      [user_id |-> merged[i].user_id,
                       phone |-> CombineFirst(merged[i].phone_excel,
                                              merged[i].phone_best)]]
        NotNa(r) == ~IsNull(r.user_id) /\ ~IsNull(r.phone)
        kept == SelectSeq(matched, NotNa)
        withMemo == [i \in 1..Len(kept) |->
                       [user_id |-> kept[i].user_id, phone |-> kept[i].phone,
                        memo |-> <<>>]]
    IN  DropDuplicates(withMemo)

\* ------------------------------------------------------------------------
\* processor.py: process_excel, process_best_list
\* ------------------------------------------------------------------------
\* f"{x or ''}": None and "" give "", NaN is true and gives "nan"
OrEmpty(x) == IF x = None THEN <<>> ELSE StrOf(x)

\* excel is the frame read_excel returns: rows of cells [a, b, d], an empty
\* cell being NaN
process_excel(excel) ==
    LET result == [i \in 1..Len(excel) |->
                     [user_id |-> Strip(StrOf(excel[i].a)),
                      phone |-> extract_phone(OrEmpty(excel[i].b) \o <<" ">>
                                                \o OrEmpty(excel[i].d)),
                      memo |-> <<>>]]
        NotNa(r) == ~IsNull(r.user_id)
        kept == SelectSeq(result, NotNa)
        stripped == [i \in 1..Len(kept) |->
                       [kept[i] EXCEPT !.user_id = Strip(kept[i].user_id)]]
    IN  DropDuplicates(stripped)

\* the class [\s,] of the split pattern
SplitClass == Whitespace \cup {","}

RECURSIVE SkipSplit(_, _)
SkipSplit(s, i) ==
    IF i <= Len(s) /\ s[i] \in SplitClass THEN SkipSplit(s, i + 1) ELSE i

\* str.split(r'[\s,]+', n=1): the parts of s
Split1(s) ==
    LET hits == {i \in 1..Len(s) : s[i] \in SplitClass}
    IN  IF hits = {}
        THEN <<s>>
        ELSE LET i == CHOOSE k \in hits : \A l \in hits : k <= l
             IN  <<SubSeq(s, 1, i - 1), SubSeq(s, SkipSplit(s, i), Len(s))>>

\* Series.str.split(..., expand=True): as many columns as the longest split,
\* None where a row has fewer parts
SplitExpand(rows) ==
    LET parts == [i \in 1..Len(rows) |-> Split1(StrOf(rows[i][1]))]
        width == IF \E i \in 1..Len(parts) : Len(parts[i]) = 2 THEN 2 ELSE 1
    IN  [i \in 1..Len(parts) |->
            [c \in 1..width |->
                IF c <= Len(parts[i]) THEN parts[i][c] ELSE None]]

\* best is the frame read_csv returns: ncols columns, rows of cells, a missing
\* field being NaN
process_best_list(best) ==
    LET df == IF best.ncols = 1 THEN SplitExpand(best.rows) ELSE best.rows
        hasPhone == df # <<>> /\ Len(df[1]) >= 2
        named == [i \in 1..Len(df) |->
                    [user_id |-> Strip(StrOf(df[i][1])),
                     phone |-> IF hasPhone THEN Strip(StrOf(df[i][2]))
                               ELSE <<>>]]
        NotNa(r) == ~IsNull(r.user_id)
    IN  DropDuplicates(SelectSeq(named, NotNa))

\* ------------------------------------------------------------------------
\* match_lists called on two frames, then on its own output
\* ------------------------------------------------------------------------
U1 == <<"u", "1">>
U2 == <<"u", "2">>
U3 == <<"u", "3">>
P1 == <<"0", "1", "0", "-", "1", "1", "1", "1", "-", "1", "1", "1", "1">>
P2 == <<"0", "1", "0", "-", "2", "2", "2", "2", "-", "2", "2", "2", "2">>

ExcelRows ==
    [user_id : {U1, U2}, phone : {None, P1, P2}, memo : {<<>>}]

BestRows == [user_id : {U1, U2}, phone : {None, P1, P2}]

NoTexts ==
    /\ text = None
    /\ phone = None
    /\ phones = {}

InitMatch ==
    /\ pc = "match"
    /\ NoTexts
    /\ rephone = None
    /\ NoApp
    /\ excel_file = <<>>
    /\ best_file = [ncols |-> 1, rows |-> <<>>]
    /\ excel_df \in BoundedSeq(ExcelRows, MaxRows)
    /\ best_df \in BoundedSeq(BestRows, MaxRows)
    /\ match_df = <<>>
    /\ rematch_df = <<>>

\* main.py: match_df = match_lists(excel_df, best_df)
MatchLists ==
    /\ pc = "match"
    /\ match_df' = match_lists(excel_df, best_df)
    /\ pc' = "matched"
    /\ UNCHANGED <<text, phone, phones, excel_file, best_file, excel_df,
                   best_df, rematch_df>>
    /\ UNCHANGED <<rephone, appVars>>

\* match_lists with the previous output as both arguments
Rematch ==
    /\ pc = "matched"
    /\ rematch_df' = match_lists(match_df, match_df)
    /\ pc' = "rematched"
    /\ UNCHANGED <<text, phone, phones, excel_file, best_file, excel_df,
                   best_df, match_df>>
    /\ UNCHANGED <<rephone, appVars>>

NextMatch == MatchLists \/ Rematch

SpecMatch == InitMatch /\ [][NextMatch]_vars

\* ------------------------------------------------------------------------
\* main.py: the run button, process_excel, process_best_list, match_lists
\* ------------------------------------------------------------------------
TitlePhone == <<"0", "1", "0", "-", "1", "1", "1", "1", "-", "2", "2", "2", "2">>
BodyPhone == <<"0", "1", "0", ".", "3", "3", "3", "3", ".", "4", "4", "4", "4">>
BodyPhoneCanonical ==
    <<"0", "1", "0", "-", "3", "3", "3", "3", "-", "4", "4", "4", "4">>
ListPhone == <<"0", "1", "0", "-", "9", "9", "9", "9", "-", "8", "8", "8", "8">>

ExcelFileRows ==
    [a : {U1, U2 \o <<" ">>}, b : {NaN, TitlePhone}, d : {NaN, BodyPhone}]

\* a list file read as two columns, and one read as a single column of lines
BestFileRows2 == {<<id, p>> : id \in {U1, U3}, p \in {NaN, <<" ">> \o ListPhone}}
BestFileRows1 == {<<U1>>, <<U3>>, <<U1 \o <<" ">> \o ListPhone>>}

NonEmptySeq(S, n) == BoundedSeq(S, n) \ {<<>>}

BestFiles ==
    [ncols : {1}, rows : NonEmptySeq(BestFileRows1, MaxFileRows)]
        \cup [ncols : {2}, rows : NonEmptySeq(BestFileRows2, MaxFileRows)]

Init ==
    /\ pc = "run"
    /\ NoTexts
    /\ rephone = None
    /\ NoApp
    /\ excel_file \in BoundedSeq(ExcelFileRows, MaxFileRows)
    /\ best_file \in BestFiles
    /\ excel_df = <<>>
    /\ best_df = <<>>
    /\ match_df = <<>>
    /\ rematch_df = <<>>

\* main.py: excel_df = process_excel(excel_file)
ProcessExcel ==
    /\ pc = "run"
    /\ excel_df' = process_excel(excel_file)
    /\ pc' = "best"
    /\ UNCHANGED <<text, phone, phones, excel_file, best_file, best_df,
                   match_df, rematch_df>>
    /\ UNCHANGED <<rephone, appVars>>

\* main.py: best_df = process_best_list(best_file)
ProcessBestList ==
    /\ pc = "best"
    /\ best_df' = process_best_list(best_file)
    /\ pc' = "match"
    /\ UNCHANGED <<text, phone, phones, excel_file, best_file, excel_df,
                   match_df, rematch_df>>
    /\ UNCHANGED <<rephone, appVars>>

Next == ProcessExcel \/ ProcessBestList \/ MatchLists

Spec == Init /\ [][Next]_vars

\* ------------------------------------------------------------------------
\* streamlit_app.py: CHAR_MAP, PHONE_PATTERN, _normalize,
\* extract_phone_numbers
\* ------------------------------------------------------------------------
app_CHAR_MAP ==
    (<<"o">> :> "0") @@ (<<"O">> :> "0") @@ (<<"q">> :> "0") @@
    (<<"Q">> :> "0") @@
    (<<"l">> :> "1") @@ (<<"I">> :> "1") @@ (<<"i">> :> "1") @@
    (<<"L">> :> "1") @@
    (<<"Z">> :> "2") @@ (<<"z">> :> "2") @@
    (<<"S">> :> "5") @@ (<<"s">> :> "5") @@
    (<<"B">> :> "8") @@ (<<"b">> :> "8") @@
    (<<"G">> :> "6") @@ (<<"g">> :> "6") @@
    (<<"T">> :> "7") @@ (<<"t">> :> "7") @@
    (<<"A">> :> "4") @@ (<<"a">> :> "4") @@
    (<<"<gong>">> :> "0") @@ (<<"<yeong>">> :> "0") @@
    (<<"<il>">> :> "1") @@ (<<"<dul>">> :> "2") @@ (<<"<set>">> :> "3") @@
    (<<"<net>">> :> "4") @@
    (<<"<da>", "<seot>">> :> "5") @@ (<<"<yeo>", "<seot>">> :> "6") @@
    (<<"<chil>">> :> "7") @@ (<<"<pal>">> :> "8") @@
    (<<"<a>", "<hop>">> :> "9")

_normalize(t) ==
    IF t = None THEN <<>> ELSE MapChars(app_CHAR_MAP, StrOf(t))

\* PHONE_PATTERN.findall(s) from index i on: the matches of 010[0-9]{8},
\* left to right, none overlapping another
RECURSIVE PHONE_PATTERN_findall(_, _)
PHONE_PATTERN_findall(s, i) ==
    IF i + 10 > Len(s)
    THEN <<>>
    ELSE IF SubSeq(s, i, i + 2) = <<"0", "1", "0">> /\ DigitsAt(s, i + 3, 8)
    THEN <<SubSeq(s, i, i + 10)>> \o PHONE_PATTERN_findall(s, i + 11)
    ELSE PHONE_PATTERN_findall(s, i + 1)

extract_phone_numbers(t) ==
    LET norm == _normalize(t)
        digits == StripNonDigits(norm)
        found == PHONE_PATTERN_findall(digits, 1)
    IN  {SubSeq(found[k], 1, 3) \o Dash \o SubSeq(found[k], 4, 7) \o Dash
            \o SubSeq(found[k], 8, Len(found[k])) : k \in 1..Len(found)}

\* ------------------------------------------------------------------------
\* extract_phone_numbers called on one text
\* ------------------------------------------------------------------------
\* the digit words of the table of streamlit_app.py
DigitWords(d) ==
    CASE d = "0" -> {<<"<gong>">>, <<"<yeong>">>}
      [] d = "1" -> {<<"<il>">>}
      [] d = "2" -> {<<"<dul>">>}
      [] d = "3" -> {<<"<set>">>}
      [] d = "4" -> {<<"<net>">>}
      [] d = "5" -> {<<"<da>", "<seot>">>}
      [] d = "6" -> {<<"<yeo>", "<seot>">>}
      [] d = "7" -> {<<"<chil>">>}
      [] d = "8" -> {<<"<pal>">>}
      [] d = "9" -> {<<"<a>", "<hop>">>}
      [] OTHER -> {}

SpelledNumber ==
    <<"0", "1", "0", "-", "1", "2", "3", "4", "-", "5", "6", "7", "8">>

\* the first k characters of number, each digit written as itself or as one of
\* its digit words
RECURSIVE Spellings(_, _)
Spellings(number, k) ==
    IF k = 0
    THEN {<<>>}
    ELSE {p \o w : p \in Spellings(number, k - 1),
                   w \in {<<number[k]>>} \cup DigitWords(number[k])}

SpelledTexts == Spellings(SpelledNumber, Len(SpelledNumber))

Gaps == {<<"-">>, <<"x">>, <<"/">>, <<".", " ">>}

Leads == {<<"x">>, <<"5">>, <<"0", "1">>, <<"0", "1", "0", "0">>}

\* 010, 1234 and 5678 with a gap between the groups, and 010-1234-5678 after
\* a lead and a space
RunTexts ==
    {<<"0", "1", "0">> \o g1 \o <<"1", "2", "3", "4">> \o g2
         \o <<"5", "6", "7", "8">> : g1 \in Gaps, g2 \in Gaps}
        \cup {lead \o <<" ">> \o SpelledNumber : lead \in Leads}

AppTexts == SpelledTexts \cup RunTexts

InitApp ==
    /\ pc = "app"
    /\ text \in AppTexts
    /\ phone = None
    /\ phones = {}
    /\ NoFiles

ExtractPhoneNumbers ==
    /\ pc = "app"
    /\ phones' = extract_phone_numbers(text)
    /\ pc' = "app_done"
    /\ UNCHANGED <<text, phone, excel_file, best_file, excel_df, best_df,
                   match_df, rematch_df>>
    /\ UNCHANGED <<rephone, appVars>>

NextApp == ExtractPhoneNumbers

SpecApp == InitApp /\ [][NextApp]_vars

\* ------------------------------------------------------------------------
\* streamlit_app.py: the stores and the pages of the menu
\* ------------------------------------------------------------------------
\* a value that is there: the file as it is on disk, the frame of the session
Some(x) == {x}

The(o) == CHOOSE x \in o : TRUE

\* the characters of the store lines in the order of their code points
CodePoints ==
    <<"\n", " ", ",", "-", "0", "1", "2", "3", "4", "5", "6", "7", "8", "9",
      "u">>

Ord(c) == CHOOSE i \in 1..Len(CodePoints) : CodePoints[i] = c

\* a < b of two Python strings
RECURSIVE StrLess(_, _)
StrLess(a, b) ==
    IF b = <<>> THEN FALSE
    ELSE IF a = <<>> THEN TRUE
    ELSE IF Head(a) = Head(b) THEN StrLess(Tail(a), Tail(b))
    ELSE Ord(Head(a)) < Ord(Head(b))

\* the line of blog_store.txt of one row
CafeLine(row) == row.blog_id \o <<",">> \o row.phone \o <<"\n">>

\* sorted(list(merged)), each line read back as its row
RECURSIVE SortedLines(_)
SortedLines(rows) ==
    IF rows = {}
    THEN <<>>
    ELSE LET first == CHOOSE r \in rows :
                          \A q \in rows \ {r} : StrLess(CafeLine(r), CafeLine(q))
         IN  <<first>> \o SortedLines(rows \ {first})

\* the orders a Firestore query can return documents of one batch in
Orders(docs) ==
    {order \in [1..Cardinality(docs) -> docs] :
        \A d \in docs : \E i \in 1..Cardinality(docs) : order[i] = d}

save_cafe(df) == store_cafe \cup df

\* the frames load_cafe can return
load_cafe ==
    IF backend = "firestore"
    THEN Orders(store_cafe)
    ELSE {SortedLines(store_cafe)}

save_best(ids) == store_best \cup {ids[i] : i \in 1..Len(ids)}

\* DataFrame.to_excel and read_excel of the match table: an empty memo is an
\* empty cell, and an empty cell is read as NaN
to_excel(df) ==
    [i \in 1..Len(df) |->
        [df[i] EXCEPT !.memo = IF IsNull(@) THEN <<>> ELSE @]]

read_excel(file) ==
    [i \in 1..Len(file) |->
        [file[i] EXCEPT !.memo = IF @ = <<>> THEN NaN ELSE @]]

\* batch.set of each row on the document of its blog id
RECURSIVE BatchSet(_, _)
BatchSet(docs, df) ==
    IF df = <<>>
    THEN docs
    ELSE BatchSet({d \in docs : d.blog_id # Head(df).blog_id} \cup {Head(df)},
                  Tail(df))

\* the match store after save_match(df)
save_match(df) ==
    IF backend = "firestore"
    THEN BatchSet(store_match, df)
    ELSE Some(to_excel(df))

\* load_excel(MATCH_XLSX) under st.cache_data: the frame of its first call
load_excel ==
    IF excel_cache # Missing
    THEN The(excel_cache)
    ELSE read_excel(The(store_match))

\* the frame load_match returns; the order of the Firestore documents has no
\* effect on what save_match stores
load_match ==
    IF backend = "firestore"
    THEN SortedLines(store_match)
    ELSE IF store_match = Missing THEN <<>> ELSE load_excel

\* drop_duplicates(subset=["blog id"])
DropDuplicatesById(rows) ==
    LET first(i) == \A j \in 1..(i - 1) : rows[j].blog_id # rows[i].blog_id
        F[i \in 0..Len(rows)] ==
            IF i = 0 THEN <<>>
            ELSE IF first(i) THEN Append(F[i - 1], rows[i]) ELSE F[i - 1]
    IN  F[Len(rows)]

\* the matched frame of the comparison page
MatchedFrame(cafe_df, best) ==
    LET isin(row) == \E i \in 1..Len(best) : best[i] = row.blog_id
        matched == DropDuplicatesById(SelectSeq(cafe_df, isin))
    IN  [i \in 1..Len(matched) |->
            [blog_id |-> matched[i].blog_id, phone |-> matched[i].phone,
             memo |-> <<>>]]

\* the uploaded cafe files: frames of cells c0, c1 and, from four columns on,
\* c3
CafeFileA ==
    [ncols |-> 2,
     rows |-> <<[c0 |-> U1, c1 |-> P1, c3 |-> NaN],
                [c0 |-> U1, c1 |-> P1, c3 |-> NaN],
                [c0 |-> <<" ">> \o U2, c1 |-> P2, c3 |-> NaN]>>]

CafeFileB ==
    [ncols |-> 4,
     rows |-> <<[c0 |-> U1, c1 |-> NaN, c3 |-> P1],
                [c0 |-> U1, c1 |-> NaN, c3 |-> P2]>>]

CafeFiles == {CafeFileA, CafeFileB}

\* the uploaded best lists, line by line
TxtFiles == {<<U1>>, <<U2 \o <<" ">>, <<>>, U1>>, <<<<" ">>>>}

\* the memo the operator types
Memo == <<"m">>

Backends == {"local", "firestore"}

\* the text of row i of the upload page
CafeText(df, i) ==
    IF df.ncols > 3
    THEN StrOf(df.rows[i].c1) \o <<" ">> \o StrOf(df.rows[i].c3)
    ELSE StrOf(df.rows[i].c1)

\* the extracted frame; range(1, len(df)) starts at the second row
ExtractedRows(df) ==
    UNION {{[blog_id |-> Strip(StrOf(df.rows[i].c0)), phone |-> p] :
                p \in extract_phone_numbers(CafeText(df, i))} :
           i \in 2..Len(df.rows)}

\* the ids of an uploaded best list
BestIds(lines) ==
    LET stripped == [i \in 1..Len(lines) |-> Strip(lines[i])]
    IN  SelectSeq(stripped, LAMBDA l : l # <<>>)

InitPages ==
    /\ pc = "start"
    /\ text = <<>>
    /\ phone = None
    /\ phones = {}
    /\ NoFrames
    /\ backend \in Backends
    /\ NoStores

OtherVars ==
    <<text, phone, phones, rephone, excel_file, best_file, excel_df, best_df,
      match_df, rematch_df, backend>>

\* one run of the script on the upload page
RenderUpload ==
    \E uploaded \in {Missing} \cup {Some(f) : f \in CafeFiles},
       clicked \in BOOLEAN :
        LET excel == IF uploaded # Missing THEN uploaded ELSE session_excel_df
        IN  /\ session_excel_df' = excel
            /\ store_cafe' =
                   IF excel # Missing /\ clicked
                   THEN save_cafe(ExtractedRows(The(excel)))
                   ELSE store_cafe
            /\ pc' = "upload"
            /\ UNCHANGED <<store_best, store_match, excel_cache,
                           session_best_df, OtherVars>>

\* one run of the script on the comparison page
RenderCompare ==
    \E txt_file \in {Missing} \cup {Some(f) : f \in TxtFiles} :
        LET ids == BestIds(The(txt_file))
            best == IF txt_file # Missing THEN Some(ids) ELSE session_best_df
        IN  /\ session_best_df' = best
            /\ store_best' =
                   IF txt_file # Missing THEN save_best(ids) ELSE store_best
            /\ IF best # Missing
               THEN \E cafe_df \in load_cafe :
                        store_match' =
                            IF cafe_df # <<>>
                            THEN save_match(MatchedFrame(cafe_df, The(best)))
                            ELSE store_match
               ELSE UNCHANGED store_match
            /\ pc' = "compare"
            /\ UNCHANGED <<store_cafe, excel_cache, session_excel_df,
                           OtherVars>>

\* one run of the script on the store page: it only loads
RenderStore ==
    /\ pc' = "store"
    /\ UNCHANGED <<appVars, text, phone, phones, rephone, excel_file,
                   best_file, excel_df, best_df, match_df, rematch_df>>

\* one run of the script on the memo page; load and save are what the two
\* st.button calls return in this run, edits are the rows whose memo the
\* operator types in the editor
RenderMemo ==
    \E load \in BOOLEAN, save \in BOOLEAN, edits \in SUBSET (1..2) :
        IF ~load
        THEN /\ pc' = "memo"
             /\ UNCHANGED <<appVars, text, phone, phones, rephone, excel_file,
                            best_file, excel_df, best_df, match_df,
                            rematch_df>>
        ELSE LET df == load_match
                 edited == [i \in 1..Len(df) |->
                               IF i \in edits
                               THEN [df[i] EXCEPT !.memo = Memo]
                               ELSE df[i]]
                 saved == df # <<>> /\ save
             IN  /\ excel_cache' =
                        IF backend = "firestore" \/ store_match = Missing
                        THEN excel_cache
                        ELSE Some(df)
                 /\ store_match' = IF saved THEN save_match(edited)
                                   ELSE store_match
                 /\ pc' = IF saved THEN "memo_saved" ELSE "memo"
                 /\ UNCHANGED <<store_cafe, store_best, session_excel_df,
                                session_best_df, OtherVars>>

\* one run of the script on the reset page
RenderClear ==
    \E clicked \in BOOLEAN :
        IF clicked
        THEN /\ store_cafe' = {}
             /\ store_best' = {}
             /\ store_match' = Missing
             /\ session_excel_df' = Missing
             /\ session_best_df' = Missing
             /\ pc' = "cleared"
             /\ UNCHANGED <<excel_cache, OtherVars>>
        ELSE /\ pc' = "clear"
             /\ UNCHANGED <<appVars, text, phone, phones, rephone, excel_file,
                            best_file, excel_df, best_df, match_df,
                            rematch_df>>

NextPages ==
    \/ RenderUpload
    \/ RenderCompare
    \/ RenderStore
    \/ RenderMemo
    \/ RenderClear

SpecPages == InitPages /\ [][NextPages]_vars

\* ------------------------------------------------------------------------
\* Properties
\* ------------------------------------------------------------------------
Pairs(rows) == {<<rows[k].user_id, rows[k].phone>> : k \in 1..Len(rows)}

PhonesOf(rows, id) ==
    {rows[k].phone : k \in {n \in 1..Len(rows) : rows[n].user_id = id}}

Matched == pc \in {"matched", "rematched"}

\* C1: a candidate row joined with a source row of the same user_id whose
\* phone is present gives an output row with the source row's phone; when
\* every source row of that user_id has a phone, the output rows of the
\* user_id carry source phones only, whatever phone the candidate carries.
C1_SourcePhoneWins ==
    Matched =>
        \A i \in 1..Len(best_df) :
            LET id == best_df[i].user_id
                src == PhonesOf(excel_df, id)
            IN  /\ \A p \in src :
                      ~IsNull(p) => <<id, p>> \in Pairs(match_df)
                /\ (src # {} /\ \A p \in src : ~IsNull(p))
                      => PhonesOf(match_df, id) = src

C1_Witness ==
    /\ pc = "matched"
    /\ excel_df = <<[user_id |-> U1, phone |-> P1, memo |-> <<>>]>>
    /\ best_df = <<[user_id |-> U1, phone |-> P2]>>
    /\ match_df = <<[user_id |-> U1, phone |-> P1, memo |-> <<>>]>>

\* a non-empty string of digits and dashes with a digit in it
IsPhoneString(p) ==
    /\ ~IsNull(p)
    /\ p # <<>>
    /\ \A i \in 1..Len(p) : p[i] \in Digit \cup {"-"}
    /\ \E i \in 1..Len(p) : p[i] \in Digit

\* C2: with the candidates made by process_best_list and the source by
\* process_excel, every row match_lists returns has a phone that is a
\* non-empty phone string (a candidate with no phone on either side is
\* dropped).
C2_NoRowWithoutPhone ==
    pc = "matched" =>
        \A k \in 1..Len(match_df) : IsPhoneString(match_df[k].phone)

C4_EveryMatchCollected ==
    pc \in {"best", "match", "matched"} =>
        \A i \in 1..Len(excel_file) :
            (excel_file[i].b = TitlePhone /\ excel_file[i].d = BodyPhone)
                => {<<Strip(excel_file[i].a), TitlePhone>>,
                    <<Strip(excel_file[i].a), BodyPhoneCanonical>>}
                       \subseteq Pairs(excel_df)

\* the digits of the run phone_pattern finds in the normalized text
MatchedDigits(t) ==
    LET norm == _normalize_digits(t)
        m == phone_pattern_search(norm)
    IN  IF m = None THEN <<>> ELSE StripNonDigits(SubSeq(norm, m[1], m[2]))

DashPositions(p) == {i \in 1..Len(p) : p[i] = "-"}

\* p is the digit string d with a dash after its first g1 and after its
\* first g1 + g2 digits
IsGrouped(p, d, g1, g2) ==
    /\ ~IsNull(p)
    /\ Len(p) = Len(d) + 2
    /\ DashPositions(p) = {g1 + 1, g1 + g2 + 2}
    /\ StripNonDigits(p) = d

\* C5: a matched run of 10 digits starting with 02 is returned grouped 2-4-4,
\* one of 10 other digits 3-3-4, one of 11 digits 3-4-4, the digits and their
\* order unchanged.
C5_DigitCountFormatting ==
    pc = "done" =>
        LET d == MatchedDigits(text)
        IN  /\ (Len(d) = 10 /\ SubSeq(d, 1, 2) = <<"0", "2">>)
                  => IsGrouped(phone, d, 2, 4)
            /\ (Len(d) = 10 /\ SubSeq(d, 1, 2) # <<"0", "2">>)
                  => IsGrouped(phone, d, 3, 3)
            /\ Len(d) = 11 => IsGrouped(phone, d, 3, 4)

C5_Witness ==
    /\ pc = "done"
    /\ text = <<"0", "2", ")", "3", "4", "5", "6", "-", "7", "8", "9", "0">>
    /\ phone = <<"0", "2", "-", "3", "4", "5", "6", "-", "7", "8", "9", "0">>

\* C6: an input that is a run of 8 or of 12 digits starting with 0 is
\* returned verbatim, without separators.
C6_OutOfRangePassedThrough ==
    (/\ pc = "done"
     /\ ~IsNull(text)
     /\ Len(text) \in {8, 12}
     /\ \A i \in 1..Len(text) : text[i] \in Digit
     /\ text[1] = "0")
        => phone = text

\* C7: a value extract_phone returns with 9, 10 or 11 digits is non-empty,
\* holds digits and dashes only, and holds exactly two dashes.
C7_CanonicalPhoneInvariant ==
    (/\ pc = "done"
     /\ ~IsNull(phone)
     /\ Len(StripNonDigits(phone)) \in 9..11)
        => /\ phone # <<>>
           /\ \A i \in 1..Len(phone) : phone[i] \in Digit \cup {"-"}
           /\ Cardinality(DashPositions(phone)) = 2

\* C8: a text that spells 010-1234-5678 with digits and the digit words of the
\* table of streamlit_app.py, the two-syllable words included, is extracted
\* by extract_phone_numbers as 010-1234-5678.
C8_DigitWordsSubstituted ==
    (pc = "app_done" /\ text \in SpelledTexts) => phones = {SpelledNumber}

\* C9: a number 010-BBBB-CCCC with any of its digits written as a confusable
\* Latin letter (O o for 0, I l i for 1, Z for 2, S s for 5, B for 8) is
\* returned by extract_phone as the number itself.
C9_LatinConfusablesRestored ==
    pc = "done" =>
        \A number \in ConfusedNumbers :
            IsConfusedFrom(text, number) => phone = number

C9_Witness ==
    /\ pc = "done"
    /\ text = <<"O", "I", "O", "-", "I", "Z", "3", "4", "-", "5", "6", "Z", "8">>
    /\ phone = <<"0", "1", "0", "-", "1", "2", "3", "4", "-", "5", "6", "2", "8">>

\* C10: match_lists applied to an output of match_lists as both source and
\* candidates returns the same set of (user_id, phone) pairs, every memo
\* empty.
C10_RematchIdempotent ==
    pc = "rematched" =>
        /\ Pairs(rematch_df) = Pairs(match_df)
        /\ \A k \in 1..Len(rematch_df) : rematch_df[k].memo = <<>>

C10_Witness ==
    /\ pc = "rematched"
    /\ Pairs(match_df) = {<<U1, P1>>, <<U1, P2>>, <<U2, P2>>}
    /\ Pairs(rematch_df) = {<<U1, P1>>, <<U1, P2>>, <<U2, P2>>}

\* the phones the join resolves for a user_id of the candidates: every source
\* phone, and the candidate phones where a source row is missing or has none
ResolvedPhones(id) ==
    LET src == PhonesOf(excel_df, id)
        cand == PhonesOf(best_df, id)
    IN  (src \ {None, NaN})
            \cup (IF src = {} \/ src \cap {None, NaN} # {}
                  THEN cand \ {None, NaN}
                  ELSE {})

\* C11: no two rows match_lists returns have the same (user_id, phone), and
\* every phone resolved for a user_id keeps its row, so rows of one user_id
\* with different phones all stay.
C11_OutputDeduplicated ==
    Matched =>
        /\ \A i, j \in 1..Len(match_df) :
              (i # j) =>
                  <<match_df[i].user_id, match_df[i].phone>>
                      # <<match_df[j].user_id, match_df[j].phone>>
        /\ \A i \in 1..Len(best_df) :
              PhonesOf(match_df, best_df[i].user_id)
                  = ResolvedPhones(best_df[i].user_id)

C11_Witness ==
    /\ pc = "matched"
    /\ Len(best_df) = 2
    /\ best_df[1] = best_df[2]
    /\ Len(excel_df) = 2
    /\ match_df = <<[user_id |-> U1, phone |-> P1, memo |-> <<>>],
                    [user_id |-> U1, phone |-> P2, memo |-> <<>>]>>

\* C12: extract_phone returns every string it can return unchanged when it is
\* called on that string; so it does for 010-1234-5678.
C12_ExtractFixedPoint == pc = "redone" => rephone = phone

C12_Witness ==
    /\ pc = "redone"
    /\ text \in CanonicalTexts
    /\ phone = text
    /\ rephone = text

\* the characters CHAR_MAP of processor.py turns into digits
ConfusableChars ==
    {"o", "O", "l", "I", "i", "Z", "S", "s", "B",
     "<gong>", "<yeong>", "<il>", "<i>", "<sam>", "<sa>", "<o>", "<yuk>",
     "<ryuk>", "<chil>", "<pal>", "<gu>"}

NoDigitLike(s) ==
    \A i \in 1..Len(s) : s[i] \notin Digit \cup ConfusableChars

C14_CandidatePhoneOnlyWithoutSource ==
    pc = "matched" =>
        \A k \in 1..Len(match_df) :
            LET id == match_df[k].user_id
                p == match_df[k].phone
            IN  (/\ IsPhoneString(p)
                 /\ p \in PhonesOf(best_df, id)
                 /\ p \notin PhonesOf(excel_df, id))
                    => \A q \in PhonesOf(excel_df, id) : IsNull(q)

\* space, dash, dot and parenthesis
GroupSeparators == {" ", "-", ".", "(", ")"}

RECURSIVE SkipGroupSeparators(_, _)
SkipGroupSeparators(s, i) ==
    IF i <= Len(s) /\ s[i] \in GroupSeparators
    THEN SkipGroupSeparators(s, i + 1)
    ELSE i

\* the phone of the run 010 dddd dddd that starts at i in s, its groups apart
\* by group separators only; None when there is no such run at i
ShapedRunAt(s, i) ==
    IF ~(i + 2 <= Len(s) /\ SubSeq(s, i, i + 2) = <<"0", "1", "0">>)
    THEN None
    ELSE LET j1 == SkipGroupSeparators(s, i + 3)
         IN  IF ~DigitsAt(s, j1, 4)
             THEN None
             ELSE LET j2 == SkipGroupSeparators(s, j1 + 4)
                  IN  IF ~DigitsAt(s, j2, 4)
                      THEN None
                      ELSE SubSeq(s, i, i + 2) \o Dash \o SubSeq(s, j1, j1 + 3)
                               \o Dash \o SubSeq(s, j2, j2 + 3)

ShapedRuns(s) == {ShapedRunAt(s, i) : i \in 1..Len(s)} \ {None}

\* the runs that no digit precedes
FreeShapedRuns(s) ==
    {ShapedRunAt(s, i) : i \in {k \in 1..Len(s) : k = 1 \/ s[k - 1] \notin Digit}}
        \ {None}

\* C15: every phone extract_phone_numbers returns is the digit content of one
\* phone-shaped run of the normalized text, whose groups are apart by space,
\* dash, dot or parenthesis only, and a phone-shaped run of the text is
\* returned whatever digits come before it.
C15_SearchBeforeStripping ==
    (pc = "app_done" /\ text \in RunTexts) =>
        /\ phones \subseteq ShapedRuns(_normalize(text))
        /\ FreeShapedRuns(_normalize(text)) \subseteq phones

\* the rows of the match store
StoredRows ==
    IF backend = "firestore"
    THEN store_match
    ELSE IF store_match = Missing
         THEN {}
         ELSE {The(store_match)[k] : k \in 1..Len(The(store_match))}

StoredMemos(id) == {r.memo : r \in {q \in StoredRows : q.blog_id = id}}

====
